---- MODULE Spec2Model ----
(***************************************************************************)
(* Model of src/hlsl/hoverProvider.ts: the hover cascade of                *)
(* HLSLHoverProvider.provideHover with its two formatters, and the         *)
(* documentation panel driven by the shader.openLink command and           *)
(* getWebviewContent.                                                      *)
(*                                                                         *)
(* Encoding of JavaScript values.  A string is a sequence of string        *)
(* fragments, so that concatenation is \o and '' is << >>.  An optional    *)
(* value is a sequence of length at most one: Undefined is << >> and       *)
(* Some(v) is << v >>.                                                     *)
(***************************************************************************)
EXTENDS Integers, Sequences, FiniteSets, TLC

VARIABLES
  hlslGlobals,  \* the six tables of hlslGlobals, each a function from keys to entries
  hover,        \* the call of provideHover: its inputs, its position and its result
  _panel,       \* HLSLHoverProvider._panel: 0 for null, else the number of the panel
  panels,       \* the webview panels created so far: placement, html, disposed
  requests      \* the calls of getWebviewContent, in the order of their invocation

Undefined == << >>
Some(v) == << v >>

(* JavaScript truthiness of an optional string: neither undefined nor ''. *)
Truthy(s) == s # Undefined /\ s[1] # << >>

(***************************************************************************)
(* Bounds of the model.                                                    *)
(***************************************************************************)
\* at most this many of the six tables hold an entry
MaxEntries == 2
\* at most this many shader.openLink invocations are made
MaxRequests == 2

(***************************************************************************)
(* Strings of the hover cascade.                                           *)
(***************************************************************************)
Digits == {"0", "1"}

\* the tokens under the cursor, and the keys of the tables
Names == { <<"a", "1">>, <<"A", "1">>, <<"A">> }

UpperChar(c) == CASE c = "a" -> "A" [] c = "d" -> "D" [] c = "e" -> "E" [] OTHER -> c

toUpperCase(s) == [i \in 1..Len(s) |-> UpperChar(s[i])]

\* strips the trailing run of digits
RECURSIVE stripTrailingNumber(_)
stripTrailingNumber(s) ==
  IF s # << >> /\ s[Len(s)] \in Digits
    THEN stripTrailingNumber(SubSeq(s, 1, Len(s) - 1))
    ELSE s

\* the characters the regular expression of textToMarkedString matches (all
\* but the backquote, which no description of the model holds)
MarkdownSyntax ==
  {"\\", "*", "_", "{", "}", "[", "]", "(", ")", "#", "+", "-", ".", "!"}

RECURSIVE escapeMarkdown(_)
escapeMarkdown(text) ==
  IF text = << >> THEN << >>
  ELSE (IF Head(text) \in MarkdownSyntax THEN <<"\\", Head(text)>> ELSE <<Head(text)>>)
         \o escapeMarkdown(Tail(text))

MarkdownString(value, trusted) ==
  [type |-> "MarkdownString", value |-> value, isTrusted |-> trusted]

\* what contents.push(undefined) appends
UndefinedBlock == [type |-> "undefined"]

TypeError == [tag |-> "TypeError"]

\* text is an optional string: text.replace on undefined throws
textToMarkedString(text) ==
  IF text = Undefined THEN TypeError
  ELSE MarkdownString(escapeMarkdown(text[1]), FALSE)

\* encodeURI('command:shader.openLink?' + JSON.stringify([linkUrl, true])):
\* the brackets and the quotes of the JSON text are percent-encoded
commandUri(linkUrl) ==
  <<"command:shader.openLink?", "%5B", "%22">> \o linkUrl \o <<"%22", ",true", "%5D">>

\* linkUrl is an optional string; the result is a block or undefined
linkToMarkdownString(linkUrl, openDocOnSide) ==
  IF linkUrl = Undefined \/ linkUrl[1] = << >> THEN UndefinedBlock
  ELSE MarkdownString(
         <<"[HLSL documentation][1]\n\n[1]: ">> \o
           (IF openDocOnSide THEN commandUri(linkUrl[1]) ELSE linkUrl[1]),
         TRUE)

(***************************************************************************)
(* The tables of hlslGlobals (data of the repository outside src/; their   *)
(* contents are inputs).  A table is a function from its keys to entries.  *)
(***************************************************************************)
Tiers == {"preprocessors", "intrinsicfunctions", "datatypes",
          "semantics", "semanticsNum", "keywords"}

DocLink == <<"https://doc/x">>

Entries ==
  { [description |-> Undefined, link |-> Undefined, parameters |-> Undefined],
    [description |-> Some(<< >>), link |-> Some(<< >>), parameters |-> Undefined],
    [description |-> Some(<<"d", "*">>), link |-> Undefined,
       parameters |-> Some(<<"x", "y">>)],
    [description |-> Some(<<"e">>), link |-> Some(DocLink),
       parameters |-> Some(<< >>)] }

Lookup(table, key) == IF key \in DOMAIN table THEN Some(table[key]) ELSE Undefined

EmptyTables == [t \in Tiers |-> << >>]

\* the worlds: at most MaxEntries tables hold an entry, the others are empty
Worlds ==
  UNION { { [t \in Tiers |-> IF t \in T
                              THEN [k \in {rows[t][1]} |-> rows[t][2]]
                              ELSE << >>]
            : rows \in [T -> Names \X Entries] }
          : T \in { U \in SUBSET Tiers : Cardinality(U) <= MaxEntries } }

(***************************************************************************)
(* Document symbols, as vscode.executeDocumentSymbolProvider returns them. *)
(***************************************************************************)
SymVar == [name |-> <<"a", "1">>, kind |-> "Variable", containerName |-> << >>,
           sameDocument |-> TRUE, text |-> <<"float a1;">>]
SymFun == [name |-> <<"a", "1">>, kind |-> "Function", containerName |-> <<"c">>,
           sameDocument |-> FALSE, text |-> <<"void a1();">>]
SymStruct == [name |-> <<"A">>, kind |-> "Struct", containerName |-> << >>,
              sameDocument |-> TRUE, text |-> <<"struct A {};">>]

SymbolLists == { << >>, <<SymVar>>, <<SymFun, SymVar>>, <<SymStruct, SymFun>> }

\* SymbolKind[s.kind].toLowerCase()
KindLabel(kind) ==
  CASE kind = "Variable" -> "variable"
    [] kind = "Function" -> "function"
    [] kind = "Struct" -> "struct"

(***************************************************************************)
(* provideHover.                                                           *)
(***************************************************************************)
Null == [tag |-> "null"]
NoHover == [tag |-> "undefined"]
NoMatch == [tag |-> "nomatch"]
Hover(contents) == [tag |-> "Hover", contents |-> contents]

\* the text left of the token on its line
Lefts == { << >>, <<"#">>, <<" ">>, <<"#", " ">> }

\* the single character left of the word range, '' at column 0
backcharOf(left) == IF Len(left) > 0 THEN <<left[Len(left)]>> ELSE << >>

\* params += p.label + ',' for each parameter, then slice(0, -1)
RECURSIVE appendLabels(_)
appendLabels(parameters) ==
  IF parameters = << >> THEN << >>
  ELSE <<Head(parameters), ",">> \o appendLabels(Tail(parameters))

joinLabels(parameters) ==
  LET params == appendLabels(parameters)
  IN  SubSeq(params, 1, Len(params) - 1)

\* the three pushes and new Hover(contents, wordRange) of a table tier
tableHover(signature, entry, openDocOnSide) ==
  LET description == textToMarkedString(entry.description)
  IN  IF description = TypeError THEN TypeError
      ELSE Hover(<< MarkdownString(signature, FALSE),
                    description,
                    linkToMarkdownString(entry.link, openDocOnSide) >>)

\* mutant: the preprocessor table is consulted whatever stands left of the token
preprocessorTierAnyContext(name, backchar, openDocOnSide) ==
  LET entry == Lookup(hlslGlobals.preprocessors, toUpperCase(name))
  IN  IF entry # Undefined /\ Truthy(entry[1].description)
        THEN tableHover(<<"(*", "preprocessor", "*) ", "**#">> \o name \o <<"**">>,
                        entry[1], openDocOnSide)
        ELSE NoMatch

preprocessorTier(name, backchar, openDocOnSide) ==
  IF backchar = <<"#">>
    THEN LET entry == Lookup(hlslGlobals.preprocessors, toUpperCase(name))
         IN  IF entry # Undefined /\ Truthy(entry[1].description)
               THEN tableHover(<<"(*", "preprocessor", "*) ", "**#">> \o name \o <<"**">>,
                               entry[1], openDocOnSide)
               ELSE NoMatch
    ELSE NoMatch

functionTier(name, openDocOnSide) ==
  LET entry == Lookup(hlslGlobals.intrinsicfunctions, name)
  IN  IF entry # Undefined /\ Truthy(entry[1].description)
        THEN tableHover(
               <<"(*", "function", "*) ", "**">> \o name \o <<"**", "(">> \o
                 (IF entry[1].parameters # Undefined /\ Len(entry[1].parameters[1]) # 0
                    THEN joinLabels(entry[1].parameters[1])
                    ELSE << >>) \o <<")">>,
               entry[1], openDocOnSide)
        ELSE NoMatch

datatypeTier(name, openDocOnSide) ==
  LET entry == Lookup(hlslGlobals.datatypes, name)
  IN  IF entry # Undefined /\ Truthy(entry[1].description)
        THEN tableHover(<<"(*", "datatype", "*) ", "**">> \o name \o <<"**">>,
                        entry[1], openDocOnSide)
        ELSE NoMatch

semanticTier(name, openDocOnSide) ==
  LET entry == Lookup(hlslGlobals.semantics, toUpperCase(name))
  IN  IF entry # Undefined /\ Truthy(entry[1].description)
        THEN tableHover(<<"(*", "semantic", "*) ", "**">> \o name \o <<"**">>,
                        entry[1], openDocOnSide)
        ELSE NoMatch

semanticNumTier(name, openDocOnSide) ==
  LET key == stripTrailingNumber(name)
      entry == Lookup(hlslGlobals.semanticsNum, toUpperCase(key))
  IN  IF entry # Undefined /\ Truthy(entry[1].description)
        THEN tableHover(<<"(*", "semantic", "*) ", "**">> \o name \o <<"**">>,
                        entry[1], openDocOnSide)
        ELSE NoMatch

keywordTier(name, openDocOnSide) ==
  LET entry == Lookup(hlslGlobals.keywords, name)
  IN  IF entry # Undefined
        THEN tableHover(<<"(*", "keyword", "*) ", "**">> \o name \o <<"**">>,
                        entry[1], openDocOnSide)
        ELSE NoMatch

\* the loop over the symbols: the first symbol of that name, else nothing
RECURSIVE symbolTier(_, _)
symbolTier(symbols, name) ==
  IF symbols = << >> THEN NoHover
  ELSE LET s == Head(symbols)
       IN  IF s.name = name
             THEN Hover(
                    << MarkdownString(
                         <<"(*", KindLabel(s.kind), "*) ">> \o
                           (IF s.containerName # << >>
                              THEN s.containerName \o <<".">> ELSE << >>) \o
                           <<"**">> \o name \o <<"**">>, FALSE) >> \o
                    (IF s.sameDocument
                       THEN << MarkdownString(<<"\n", "codeblock hlsl", "\n">> \o s.text \o <<"\n">>,
                                              FALSE) >>
                       ELSE << >>))
             ELSE symbolTier(Tail(symbols), name)

\* mutant: the datatype table is consulted before the intrinsic functions
cascadeDatatypeFirst(name, backchar, openDocOnSide) ==
  LET t1 == preprocessorTier(name, backchar, openDocOnSide)
      t2 == functionTier(name, openDocOnSide)
      t3 == datatypeTier(name, openDocOnSide)
      t4 == semanticTier(name, openDocOnSide)
      t5 == semanticNumTier(name, openDocOnSide)
      t6 == keywordTier(name, openDocOnSide)
  IN  IF t1 # NoMatch THEN t1
      ELSE IF t3 # NoMatch THEN t3
      ELSE IF t2 # NoMatch THEN t2
      ELSE IF t4 # NoMatch THEN t4
      ELSE IF t5 # NoMatch THEN t5
      ELSE t6

\* the synchronous part of provideHover, up to the await of getSymbols
cascade(name, backchar, openDocOnSide) ==
  LET t1 == preprocessorTier(name, backchar, openDocOnSide)
      t2 == functionTier(name, openDocOnSide)
      t3 == datatypeTier(name, openDocOnSide)
      t4 == semanticTier(name, openDocOnSide)
      t5 == semanticNumTier(name, openDocOnSide)
      t6 == keywordTier(name, openDocOnSide)
  IN  IF t1 # NoMatch THEN t1
      ELSE IF t2 # NoMatch THEN t2
      ELSE IF t3 # NoMatch THEN t3
      ELSE IF t4 # NoMatch THEN t4
      ELSE IF t5 # NoMatch THEN t5
      ELSE t6

IdleHover ==
  [pc |-> "idle", enable |-> TRUE, word |-> Undefined, left |-> << >>,
   openDocOnSide |-> FALSE, symbols |-> Undefined, result |-> NoMatch]

\* provideHover up to its return or its await
ProvideHover ==
  /\ hover.pc = "idle"
  /\ \E enable \in BOOLEAN, word \in {Undefined} \cup {Some(n) : n \in Names},
        left \in Lefts, openDocOnSide \in BOOLEAN :
       LET call == [IdleHover EXCEPT !.enable = enable, !.word = word,
                                     !.left = left, !.openDocOnSide = openDocOnSide]
           found == cascade(word[1], backcharOf(left), openDocOnSide)
       IN  hover' =
             IF ~enable \/ word = Undefined
               THEN [call EXCEPT !.pc = "done", !.result = Null]
             ELSE IF found = NoMatch
               THEN [call EXCEPT !.pc = "await"]
             ELSE [call EXCEPT !.pc = "done", !.result = found]
  /\ UNCHANGED <<hlslGlobals, _panel, panels, requests>>

\* getSymbols resolves and the loop over the symbols runs
SymbolsResolved ==
  /\ hover.pc = "await"
  /\ \E symbols \in SymbolLists :
       hover' = [hover EXCEPT !.pc = "done", !.symbols = Some(symbols),
                              !.result = symbolTier(symbols, hover.word[1])]
  /\ UNCHANGED <<hlslGlobals, _panel, panels, requests>>

vars == <<hlslGlobals, hover, _panel, panels, requests>>

InitHover ==
  /\ hlslGlobals \in Worlds
  /\ hover = IdleHover
  /\ _panel = 0
  /\ panels = << >>
  /\ requests = << >>

NextHover == ProvideHover \/ SymbolsResolved

SpecHover == InitHover /\ [][NextHover]_vars

(***************************************************************************)
(* Properties of provideHover.  Tiers are numbered 1 to 6 in the order of  *)
(* the claims: preprocessor, intrinsic function, datatype, semantic,       *)
(* numbered semantic, keyword; the document symbols are tier 7.            *)
(***************************************************************************)
TableOf(t) ==
  CASE t = 1 -> hlslGlobals.preprocessors
    [] t = 2 -> hlslGlobals.intrinsicfunctions
    [] t = 3 -> hlslGlobals.datatypes
    [] t = 4 -> hlslGlobals.semantics
    [] t = 5 -> hlslGlobals.semanticsNum
    [] t = 6 -> hlslGlobals.keywords

KeyOf(t, name) ==
  CASE t \in {1, 4} -> toUpperCase(name)
    [] t = 5 -> toUpperCase(stripTrailingNumber(name))
    [] OTHER -> name

LabelOfTier(t) ==
  CASE t = 1 -> "preprocessor"
    [] t = 2 -> "function"
    [] t = 3 -> "datatype"
    [] t \in {4, 5} -> "semantic"
    [] t = 6 -> "keyword"

\* a call that got past the two early returns and has returned
Returned == hover.pc = "done" /\ hover.enable /\ hover.word # Undefined

Token == hover.word[1]

HashLeft == hover.left # << >> /\ hover.left[Len(hover.left)] = "#"

\* the token's key is a key of tier t's table
Present(t) == KeyOf(t, Token) \in DOMAIN TableOf(t)

EntryAt(t) == TableOf(t)[KeyOf(t, Token)]

\* tier t matches: tier 1 needs the '#', tiers 1 to 5 a non-empty description
Matches(t) ==
  /\ Present(t)
  /\ t = 1 => HashLeft
  /\ t <= 5 => Truthy(EntryAt(t).description)

PresentTiers == {t \in 1..6 : Present(t)}
MatchingTiers == {t \in 1..6 : Matches(t)}
FirstOf(S) == CHOOSE t \in S : \A u \in S : t <= u

IsHover == hover.result.tag = "Hover"
LabelOfResult == hover.result.contents[1].value[2]

\* the result is a hover built from tier t's entry
CarriesTier(t) ==
  /\ IsHover
  /\ LabelOfResult = LabelOfTier(t)
  /\ hover.result.contents[2] =
       MarkdownString(escapeMarkdown(EntryAt(t).description[1]), FALSE)

NamedSymbols == SelectSeq(hover.symbols[1], LAMBDA s : s.name = Token)

\* the result is what the first symbol of the token's name gives, if any
CarriesSymbol ==
  /\ hover.symbols # Undefined
  /\ IF NamedSymbols = << >>
       THEN hover.result = NoHover
       ELSE IsHover /\ LabelOfResult = KindLabel(NamedSymbols[1].kind)

(* C1 as stated: for a token present in exactly one tier's table, what     *)
(* provideHover returns is that tier's hover, with that tier's kind label  *)
(* and entry.                                                              *)
C1_AsStated ==
  (Returned /\ hover.result # TypeError) =>
    /\ (Cardinality(PresentTiers) = 1
          /\ (hover.symbols # Undefined => NamedSymbols = << >>))
         => CarriesTier(FirstOf(PresentTiers))
    /\ (PresentTiers = {} /\ hover.symbols # Undefined /\ NamedSymbols # << >>)
         => CarriesSymbol

(* C1 as amended: with tier 1 matching only after '#' and tiers 1 to 5     *)
(* only on a non-empty description, a returned hover is always the hover   *)
(* of the first tier that matches, the symbols are never consulted when a  *)
(* table tier matches, and when no table tier matches the result is that   *)
(* of the document symbols.                                                *)
C1_FirstMatchWins ==
  Returned =>
    IF MatchingTiers # {}
      THEN /\ hover.symbols = Undefined
           /\ hover.result.tag \in {"Hover", "TypeError"}
           /\ IsHover => CarriesTier(FirstOf(MatchingTiers))
      ELSE CarriesSymbol

\* two tiers match and the earlier one's hover is returned
C1_Witness ==
  /\ Returned
  /\ Cardinality(MatchingTiers) = 2
  /\ 3 \in MatchingTiers
  /\ CarriesTier(FirstOf(MatchingTiers))
  /\ LabelOfResult = "function"

(* C2: a hover of kind preprocessor is returned only when the character    *)
(* immediately left of the token is '#'; and after '#', when the           *)
(* preprocessor lookup misses, the result is that of tiers 2 to 7.         *)
C2_PreprocessorOnlyAfterHash ==
  Returned =>
    /\ (IsHover /\ LabelOfResult = "preprocessor") => HashLeft
    /\ (HashLeft /\ ~Matches(1)) =>
         IF MatchingTiers # {}
           THEN /\ hover.symbols = Undefined
                /\ IsHover => CarriesTier(FirstOf(MatchingTiers))
           ELSE CarriesSymbol

\* the upper-cased token is a preprocessor key with a description, the token
\* stands at column 0, and a later tier's hover is returned
C2_Witness ==
  /\ Returned
  /\ hover.left = << >>
  /\ Present(1) /\ Truthy(EntryAt(1).description)
  /\ IsHover /\ LabelOfResult = "keyword"

(* C3: a keyword entry is a match as soon as it exists, whatever its       *)
(* description, and yields the keyword hover; an entry of tiers 1 to 5     *)
(* without a description is no match and the cascade goes on.              *)
C3_KeywordMatchesWithoutDescription ==
  (Returned /\ \A t \in 1..5 : ~Matches(t)) =>
    IF Present(6)
      THEN IsHover /\ LabelOfResult = "keyword"
      ELSE CarriesSymbol

(* C9: a hover of a table tier holds the signature, then the escaped       *)
(* description, then the link block exactly when the entry's link is       *)
(* non-empty: without a link it has two blocks and no third element.       *)
C9_LinkBlockIffLink ==
  (Returned /\ IsHover /\ MatchingTiers # {}) =>
    LET entry == EntryAt(FirstOf(MatchingTiers))
        contents == hover.result.contents
    IN  /\ contents[1].value[2] = LabelOfTier(FirstOf(MatchingTiers))
        /\ contents[2] = MarkdownString(escapeMarkdown(entry.description[1]), FALSE)
        /\ IF Truthy(entry.link)
             THEN Len(contents) = 3 /\ contents[3].type = "MarkdownString"
             ELSE Len(contents) = 2

(***************************************************************************)
(* The documentation panel.  A URL is <<scheme, host, path>>; an href of   *)
(* a fetched page is a URL, a relative path <<path>>, '' or a string that  *)
(* is no URL.  _panel = 0 stands for null, panels are numbered from 1 in   *)
(* the order of their creation.                                            *)
(***************************************************************************)
StartLinks == { <<"http", "h1", "/a">> }
Locations == { <<"https", "h2", "/b">> }
Placeholder == <<"#">>
MalformedHrefs == { <<"http://[">> }

\* the elements of a fetched document
Content == [t |-> "content", href |-> << >>]
Metadata == [t |-> "metadata", href |-> << >>]
Anchor(href) == [t |-> "a", href |-> href]

\* the bodies a server answers a 200 with: the chunks of the 'data' events,
\* each the elements it holds in order
Bodies ==
  { << <<Content, Metadata>>, <<Anchor(<<"/b">>), Anchor(<<"https", "h2", "/a">>)>> >>,
    << <<Anchor(<<"/b">>)>> >>,
    << <<Content, Anchor(<<"http://[">>)>>, <<Anchor(<<"https", "h2", "/a">>)>> >> }

RECURSIVE Flatten(_)
Flatten(chunks) ==
  IF chunks = << >> THEN << >> ELSE Head(chunks) \o Flatten(Tail(chunks))

Statuses == {200, 301, 302, 404}

\* response.statusCode.toString()
StatusString(status) ==
  CASE status = 404 -> "404"
    [] status = 200 -> "200"
    [] status = 301 -> "301"
    [] status = 302 -> "302"

\* what webview.html is set to
Text(text) == [kind |-> "text", text |-> text, topic |-> << >>]
\* HTML_TEMPLATE.replace('{0}', topic)
Template(topic) == [kind |-> "template", text |-> << >>, topic |-> topic]

\* what new URL throws on, as a URL, as a list of elements and as a page
InvalidURL == <<"TypeError">>
Thrown == << [t |-> "TypeError"] >>
RenderThrew == [kind |-> "TypeError"]

\* Uri.parse(link): a link that is no absolute URL has no authority
schemeOf(uri) == IF Len(uri) = 3 THEN uri[1] ELSE "file"
authorityOf(uri) == IF Len(uri) = 3 THEN uri[2] ELSE ""
pathOf(uri) == IF Len(uri) = 3 THEN uri[3] ELSE ""

\* new dom.window.URL(href, uri.toString()).href
resolveURL(href, base) ==
  IF href \in MalformedHrefs THEN InvalidURL
  ELSE IF href = << >> THEN base
  ELSE IF Len(href) = 1 THEN <<schemeOf(base), authorityOf(base), href[1]>>
  ELSE href

\* mutant: the click payload is the href as rewritten, the placeholder
rewriteAnchorPlaceholder(fulllink) ==
  [t |-> "a", href |-> Placeholder, onclick |-> Some(Placeholder)]

\* the two assignments of the loop body to one anchor
rewriteAnchor(fulllink) ==
  [t |-> "a", href |-> Placeholder, onclick |-> Some(fulllink)]

\* the elements of the first .content element, none when there is none
RECURSIVE contentOf(_)
contentOf(html) ==
  IF html = << >> THEN Undefined
  ELSE IF Head(html).t = "content" THEN Some(Tail(html))
  ELSE contentOf(Tail(html))

\* the for loop over the anchors of the node: the rewritten elements, or
\* Thrown as soon as one href does not resolve
RECURSIVE rewriteAnchors(_, _)
rewriteAnchors(node, uri) ==
  IF node = << >> THEN << >>
  ELSE IF Head(node).t # "a" THEN <<Head(node)>> \o rewriteAnchors(Tail(node), uri)
  ELSE LET fulllink == resolveURL(Head(node).href, uri)
           rest == rewriteAnchors(Tail(node), uri)
       IN  IF fulllink = InvalidURL \/ rest = Thrown THEN Thrown
           ELSE <<rewriteAnchor(fulllink)>> \o rest

\* the 'end' handler up to its resolve: the page, or RenderThrew when it throws
renderPage(html, uri) ==
  LET node == contentOf(html)
  IN  IF node # Undefined
        THEN LET rewritten == rewriteAnchors(node[1], uri)
             IN  IF rewritten = Thrown THEN RenderThrew
                 ELSE Template(SelectSeq(rewritten, LAMBDA e : e.t # "metadata"))
        ELSE Template(<< [t |-> "a", href |-> <<"https", authorityOf(uri), pathOf(uri)>>,
                          onclick |-> Undefined] >>)

NewRequest(link, newWindow, panel) ==
  [link |-> link, newWindow |-> newWindow, panel |-> panel, phase |-> "pending",
   error |-> FALSE,
   status |-> 0, body |-> << >>, received |-> 0, html |-> << >>,
   value |-> Undefined,
   wrote |-> Undefined]

\* mutant: closing the panel leaves the reference in place
onDidDisposeKeeps(panel) == panel

\* the onDidDispose callback: the value _panel takes
onDidDispose(panel) == 0

\* the command handler of shader.openLink: the panel is created when there is
\* none, revealed (which changes nothing the model holds), and the fetch of
\* getWebviewContent(link) is started
openLink(link, newWindow) ==
  /\ Len(requests) < MaxRequests
  /\ IF _panel = 0
       THEN /\ panels' = Append(panels,
                 [viewColumn |-> IF newWindow = Some(TRUE) THEN "Two" ELSE "Active",
                  html |-> Text(<< >>), disposed |-> FALSE])
            /\ _panel' = Len(panels) + 1
       ELSE UNCHANGED <<_panel, panels>>
  /\ requests' = Append(requests, NewRequest(link, newWindow, _panel'))

\* resolve(value) and the then-callback this._panel.webview.html = html,
\* which runs before any other event: the requests and panels it leaves.
\* wrote records the panel written to; with _panel null the assignment throws
\* a TypeError and wrote is Some(0)
settle(i, value) ==
  [requests |->
     [requests EXCEPT ![i].phase = "resolved", ![i].value = Some(value),
                      ![i].wrote = Some(_panel)],
   panels |->
     IF _panel = 0 THEN panels ELSE [panels EXCEPT ![_panel].html = value]]

\* mutant: an error resolves the promise with a surrogate text
onErrorResolves(i) == settle(i, Text(<<"error">>))

\* the two 'error' handlers: console.log and nothing else
onError(i) ==
  [requests |-> [requests EXCEPT ![i].phase = "failed"], panels |-> panels]

\* the command is invoked from a hover link or by another caller
OpenLink ==
  /\ \E link \in StartLinks, newWindow \in BOOLEAN : openLink(link, Some(newWindow))
  /\ UNCHANGED <<hlslGlobals, hover>>

\* the links the page on display posts as {command: 'clickLink', text}
clickableLinks(html) ==
  { html.topic[k].onclick[1] :
      k \in { j \in 1..Len(html.topic) :
                html.topic[j].t = "a" /\ html.topic[j].onclick # Undefined } }

\* onDidReceiveMessage with a clickLink message of the open panel
ClickLink ==
  /\ _panel # 0
  /\ \E text \in clickableLinks(panels[_panel].html) : openLink(text, Undefined)
  /\ UNCHANGED <<hlslGlobals, hover>>

\* the user closes the panel
Dispose ==
  /\ _panel # 0
  /\ panels' = [panels EXCEPT ![_panel].disposed = TRUE]
  /\ _panel' = onDidDispose(_panel)
  /\ UNCHANGED <<hlslGlobals, hover, requests>>

\* the response callback on a redirect or another status that is not 200
RespondNotOK(i) ==
  /\ requests[i].phase = "pending"
  /\ \E status \in Statuses \ {200}, location \in Locations :
       LET value == IF status \in {301, 302} THEN Text(location)
                    ELSE Text(<<StatusString(status)>>)
           after == settle(i, value)
       IN  /\ requests' = [after.requests EXCEPT ![i].status = status]
           /\ panels' = after.panels
  /\ UNCHANGED <<hlslGlobals, hover, _panel>>

\* the response callback on status 200: the listeners are attached
RespondOK(i) ==
  /\ requests[i].phase = "pending"
  /\ \E body \in Bodies :
       requests' = [requests EXCEPT ![i].phase = "receiving", ![i].status = 200,
                                    ![i].body = body]
  /\ UNCHANGED <<hlslGlobals, hover, _panel, panels>>

\* a 'data' event: the next chunk of the body is appended to html
Data(i) ==
  /\ requests[i].phase = "receiving"
  /\ requests[i].received < Len(requests[i].body)
  /\ requests' = [requests EXCEPT
                    ![i].received = @ + 1,
                    ![i].html = @ \o requests[i].body[requests[i].received + 1]]
  /\ UNCHANGED <<hlslGlobals, hover, _panel, panels>>

\* the 'end' event: the page is built and the promise resolved, or the
\* handler throws and the promise stays pending
End(i) ==
  /\ requests[i].phase = "receiving"
  /\ requests[i].received = Len(requests[i].body)
  /\ LET page == renderPage(requests[i].html, requests[i].link)
     IN  IF page = RenderThrew
           THEN /\ requests' = [requests EXCEPT ![i].phase = "crashed"]
                /\ UNCHANGED panels
           ELSE /\ requests' = settle(i, page).requests
                /\ panels' = settle(i, page).panels
  /\ UNCHANGED <<hlslGlobals, hover, _panel>>

\* request.on('error') before a response, response.on('error') within the
\* body: error records that the transport failed
Error(i) ==
  /\ requests[i].phase \in {"pending", "receiving"}
  /\ requests' = [onError(i).requests EXCEPT ![i].error = TRUE]
  /\ panels' = onError(i).panels
  /\ UNCHANGED <<hlslGlobals, hover, _panel>>

Init ==
  /\ hlslGlobals = EmptyTables
  /\ hover = IdleHover
  /\ _panel = 0
  /\ panels = << >>
  /\ requests = << >>

Redirected == \E i \in 1..Len(requests) : RespondNotOK(i)
Answered == \E i \in 1..Len(requests) : RespondOK(i)
Received == \E i \in 1..Len(requests) : Data(i)
Ended == \E i \in 1..Len(requests) : End(i)
Failed == \E i \in 1..Len(requests) : Error(i)

Next ==
  \/ OpenLink
  \/ ClickLink
  \/ Dispose
  \/ Redirected
  \/ Answered
  \/ Received
  \/ Ended
  \/ Failed

Spec == Init /\ [][Next]_vars

(***************************************************************************)
(* Properties of the documentation panel.                                  *)
(***************************************************************************)
Live == {p \in 1..Len(panels) : ~panels[p].disposed}

Invoked == Len(requests') = Len(requests) + 1
Latest == requests'[Len(requests')]

\* request i is resolved in this step
Resolves(i) == requests[i].phase # "resolved" /\ requests'[i].phase = "resolved"

(* C4: at most one surface exists and _panel refers to it; an openLink     *)
(* invocation creates a surface exactly when _panel is null and otherwise  *)
(* leaves the surface in place; closing the surface resets _panel to null. *)
C4_SingleSurface ==
  [][ /\ Cardinality(Live') <= 1
      /\ IF _panel' = 0 THEN Live' = {} ELSE Live' = {_panel'}
      /\ Invoked =>
           IF _panel = 0
             THEN /\ Len(panels') = Len(panels) + 1
                  /\ _panel' = Len(panels')
                  /\ Live' = {Len(panels')}
             ELSE _panel' = _panel /\ panels' = panels
      /\ Len(panels') # Len(panels) => Invoked /\ _panel = 0
      /\ (Live' # Live /\ ~Invoked) => _panel' = 0 /\ Live' = {}
    ]_vars

\* a second surface was created after the first was closed
C4_Witness ==
  /\ Len(panels) = 2
  /\ panels[1].disposed
  /\ _panel = 2
  /\ Live = {2}

\* the hrefs of the anchors inside the content element of a body
ContentHrefs(body) ==
  LET node == contentOf(Flatten(body))
  IN  IF node = Undefined THEN {}
      ELSE { node[1][k].href : k \in {j \in 1..Len(node[1]) : node[1][j].t = "a"} }

(* C5: a clickLink message raises an openLink request whose link is the    *)
(* absolute URL an anchor of the page on display resolves to, never the    *)
(* placeholder; the request starts a fetch and creates no surface; when it *)
(* resolves, the content of the open surface is replaced and no surface is *)
(* created; the placement of a surface never changes after its creation.   *)
C5_ClickNavigatesInPlace ==
  [][ /\ (Invoked /\ Latest.newWindow = Undefined) =>
           /\ Latest.link # Placeholder
           /\ Len(Latest.link) = 3
           /\ \E j \in 1..Len(requests) :
                /\ requests[j].value = Some(panels[_panel].html)
                /\ \E href \in ContentHrefs(requests[j].body) :
                     Latest.link = resolveURL(href, requests[j].link)
           /\ Latest.phase = "pending"
           /\ _panel # 0 /\ _panel' = _panel /\ panels' = panels
      /\ \A i \in 1..Len(requests) :
           (Resolves(i) /\ requests[i].newWindow = Undefined) =>
             /\ Len(panels') = Len(panels)
             /\ _panel' = _panel
             /\ _panel # 0 => panels'[_panel].html = requests'[i].value[1]
      /\ \A p \in 1..Len(panels) : panels'[p].viewColumn = panels[p].viewColumn
      /\ (Invoked /\ _panel = 0) =>
           panels'[_panel'].viewColumn =
             IF Latest.newWindow = Some(TRUE) THEN "Two" ELSE "Active"
    ]_vars

\* a surface opened beside shows the page of a request raised by a click
C5_Witness ==
  /\ Len(requests) = 2
  /\ requests[1].newWindow = Some(TRUE)
  /\ requests[2].newWindow = Undefined
  /\ requests[2].link = <<"https", "h2", "/a">>
  /\ requests[2].phase = "resolved"
  /\ Len(panels) = 1 /\ _panel = 1
  /\ panels[1].viewColumn = "Two"
  /\ panels[1].html = requests[2].value[1]
  /\ panels[1].html.kind = "template"

\* the page the 'end' handler would build if an href that does not resolve
\* were skipped: that anchor is left as it is, the others are rewritten
RECURSIVE SkippingRewrite(_, _)
SkippingRewrite(node, uri) ==
  IF node = << >> THEN << >>
  ELSE (IF Head(node).t = "a" /\ resolveURL(Head(node).href, uri) # InvalidURL
          THEN << [t |-> "a", href |-> Placeholder,
                   onclick |-> Some(resolveURL(Head(node).href, uri))] >>
          ELSE << Head(node) >>)
       \o SkippingRewrite(Tail(node), uri)

SkippingPage(html, uri) ==
  LET node == contentOf(html)
  IN  IF node = Undefined THEN renderPage(html, uri)
      ELSE Template(SelectSeq(SkippingRewrite(node[1], uri),
                              LAMBDA e : e.t # "metadata"))

\* the 'end' event of request i has been handled
EndHandled(i) == requests[i].status = 200 /\ requests[i].phase \in {"resolved", "crashed"}

(* C6: once a response is received in full the promise is resolved, once,  *)
(* with the Location header on 301 and 302, the status code as a string on *)
(* any other status that is not 200, and on 200 the page built from the    *)
(* whole body; after a response it is never left pending.                  *)
C6_ResolvesOncePerResponse ==
  \A i \in 1..Len(requests) :
    LET r == requests[i]
    IN  /\ r.status \in {301, 302} =>
             r.phase = "resolved" /\ r.value[1].text \in Locations
        /\ r.status \notin {0, 200, 301, 302} =>
             r.phase = "resolved" /\ r.value[1] = Text(<<StatusString(r.status)>>)
        /\ EndHandled(i) =>
             /\ r.phase = "resolved"
             /\ r.html = Flatten(r.body)
             /\ r.value[1].kind = "template"

(* C7: an href that does not resolve never crashes the 'end' handler: that *)
(* anchor alone is skipped, the other anchors are rewritten and the        *)
(* promise resolves with the page.                                         *)
C7_MalformedHrefSkipped ==
  \A i \in 1..Len(requests) :
    EndHandled(i) =>
      /\ requests[i].phase = "resolved"
      /\ requests[i].value = Some(SkippingPage(Flatten(requests[i].body),
                                               requests[i].link))

\* the requests whose resolution wrote to panel p
WritersOf(p) == {i \in 1..Len(requests) : requests[i].wrote = Some(p)}

(* C8: a request whose transport failed is never resolved, neither then    *)
(* nor later, and never writes to a surface; the content of a surface is   *)
(* always that of a request that resolved; and whatever the state of the   *)
(* other requests, every request still awaiting its response or its body   *)
(* can proceed, and a request that resolved while a surface was open, with *)
(* all the others hanging or failed, is what that surface shows.           *)
C8_FailureStallsOnlyItself ==
  /\ \A i \in 1..Len(requests) :
       /\ requests[i].error =>
            /\ requests[i].phase = "failed"
            /\ requests[i].value = Undefined
            /\ requests[i].wrote = Undefined
       /\ requests[i].phase = "pending" =>
            ENABLED RespondOK(i) /\ ENABLED RespondNotOK(i)
       /\ requests[i].phase = "receiving" => ENABLED Data(i) \/ ENABLED End(i)
       /\ ( /\ requests[i].phase = "resolved"
            /\ requests[i].wrote # Some(0)
            /\ \A j \in 1..Len(requests) \ {i} :
                 requests[j].phase \in {"pending", "receiving", "failed"} )
          => panels[requests[i].wrote[1]].html = requests[i].value[1]
  /\ \A p \in 1..Len(panels) :
       IF WritersOf(p) = {}
         THEN panels[p].html = Text(<< >>)
         ELSE \E i \in WritersOf(p) :
                ~requests[i].error /\ requests[i].value = Some(panels[p].html)

\* the first request failed and the surface shows the page of the second
C8_Witness ==
  /\ Len(requests) = 2
  /\ requests[1].error /\ requests[1].phase = "failed"
  /\ requests[2].phase = "resolved"
  /\ requests[2].value[1].kind = "template"
  /\ _panel # 0
  /\ panels[_panel].html = requests[2].value[1]

(* C10: once all requests are resolved the surface shows the page of the   *)
(* request issued last, in whatever order they resolved; and a request     *)
(* that resolves writes only to the surface it was issued for, never to a  *)
(* null reference nor to a surface created later.                          *)
C10_CompletionsBelongToTheirRequest ==
  /\ \A i \in 1..Len(requests) :
       requests[i].wrote # Undefined => requests[i].wrote = Some(requests[i].panel)
  /\ ( /\ requests # << >>
       /\ \A i \in 1..Len(requests) :
            requests[i].phase = "resolved" /\ requests[i].panel = _panel )
     => panels[_panel].html = requests[Len(requests)].value[1]
====
